---- MODULE Spec2Model ----
(***************************************************************************)
(* A model of go-libshell (shell.go): the line-splitting CompositeWriter   *)
(* with its simpleGrowingBuffer, and the CommandExecution lifecycle        *)
(* (Begin, Run, RunWithCallbacks) around an os/exec child process.         *)
(*                                                                         *)
(* Byte strings are sequences of byte values; '\n' is NL.                  *)
(***************************************************************************)
EXTENDS Integers, Sequences, FiniteSets

VARIABLES
    \* ---- the CommandExecution request (shell.go:56-72)
    AutoRead,      \* AutoRead[s]: AutoReadStdout / AutoReadStderr
    Reader,        \* Reader[s]: StdoutReader / StderrReader (state of the pipe's read end)
    Output,        \* Output[s]: the Stdout / Stderr result text
    ExitCode,
    WrappedCmd,    \* "nil", or the state of the exec.Cmd handle
    Writer,        \* Writer[s]: WrappedCmd.Stdout / WrappedCmd.Stderr; also the
                   \* writer under test when a CompositeWriter is driven directly
    \* ---- the caller's thread inside Run
    pc,            \* position of the caller's thread
    entry,         \* the API function the caller entered
    ret,           \* what the last finished API call returned
    waitErr,       \* Run's local err, the result of WrappedCmd.Wait()
    bytes,         \* Run's local bytes, filled by ioutil.ReadAll
    \* ---- the child process and its output pipes
    child,         \* "none", "running", or how it terminated
    pipe,          \* pipe[s]: bytes written by the child and not yet read
    sent,          \* sent[s]: every byte the current child wrote to stream s
    bytesLeft,     \* bytes the children may still write
    \* ---- observation
    calls,         \* the callback invocations of the current writers, in order
    lastOp,        \* last method applied to a directly driven writer
    nWrites,       \* number of Write calls on a directly driven writer
    nFinalize,     \* number of Finalize calls on a directly driven writer
    unterminated,  \* the line left open by the writes so far
    longest,       \* longest open line seen between calls
    callsLeft,     \* API calls that may still be made
    \* ---- the SSH request builder (shell.go:74-76, 362-377)
    heap,          \* heap[a]: the backing array a of string slices, one slot per
                   \* unit of capacity
    ExtraSshOptions, \* the package variable: a slice [arr, len] into the heap
    requests,      \* the requests built by NewSsh, in order
    asked,         \* asked[i]: the host and arguments requests[i] was built for
    \* ---- goroutines calling Write and Finalize on one writer concurrently
    th,            \* th[t]: position and locals of goroutine t
    mutex,         \* the buffer's sync.Mutex: "free", or the goroutine holding it
    order          \* the goroutines in the order they acquired the mutex

vars == <<AutoRead, Reader, Output, ExitCode, WrappedCmd, Writer, pc, entry, ret,
          waitErr, bytes, child, pipe, sent, bytesLeft, calls, lastOp, nWrites, nFinalize, unterminated,
          longest, callsLeft, heap, ExtraSshOptions, requests, asked,
          th, mutex, order>>

reqVars == <<AutoRead, Reader, Output, ExitCode, WrappedCmd>>
runVars == <<pc, entry, ret, waitErr, bytes, callsLeft>>
procVars == <<child, pipe, bytesLeft>>
directVars == <<lastOp, nWrites, nFinalize, unterminated, longest>>
sshVars == <<heap, ExtraSshOptions, requests, asked>>
lockVars == <<th, mutex, order>>

\* ------------------------------------------------------------------------
\* Constants of the program

STDOUT == 1
STDERR == 2
Streams == {STDOUT, STDERR}

NL == 10

\* ------------------------------------------------------------------------
\* Bounds of the model

\* total bytes written to a directly driven writer
MaxStream == 4
\* Write calls on a directly driven writer
MaxWrites == 4
\* Finalize calls on a directly driven writer
MaxFinalize == 2

\* the byte values written: '\n', 'a', 'b'
Bytes == {NL, 97, 98}
\* callback payloads
Payloads == {1, 2}

SeqsUpTo(S, n) == UNION {[1..k -> S] : k \in 0..n}

Max(a, b) == IF a >= b THEN a ELSE b

\* ------------------------------------------------------------------------
\* Library functions used by the code

\* bytes.IndexByte: index (from 0) of the first c in s, -1 if there is none
IndexByte(s, c) ==
    IF \E i \in 1..Len(s) : s[i] = c
    THEN (CHOOSE i \in 1..Len(s) : s[i] = c /\ \A j \in 1..(i-1) : s[j] # c) - 1
    ELSE -1

\* ------------------------------------------------------------------------
\* simpleGrowingBuffer: a record [byteBuffer, LastNewlineOffset]

EmptyBuffer == [byteBuffer |-> <<>>, LastNewlineOffset |-> 0]

SliceLength(b) == Len(b.byteBuffer) - b.LastNewlineOffset

Slice(b) == SubSeq(b.byteBuffer, b.LastNewlineOffset + 1, Len(b.byteBuffer))

\* a SliceNext that forgets the consumed prefix
SliceNextFromStart(b, count) == SubSeq(b.byteBuffer, 1, count)

SliceNext(b, count) ==
    SubSeq(b.byteBuffer, b.LastNewlineOffset + 1, b.LastNewlineOffset + count)

\* a Reset that drops the bytes and keeps the offset
ResetKeepsOffset(b) == [byteBuffer |-> <<>>, LastNewlineOffset |-> b.LastNewlineOffset]

Reset(b) == [byteBuffer |-> <<>>, LastNewlineOffset |-> 0]

\* Slice is defined below Truncate's mutant, so the mutant spells it out:
\* a Truncate that keeps one consumed byte too many
TruncateOffByOne(b) ==
    [byteBuffer |-> SubSeq(b.byteBuffer, b.LastNewlineOffset, Len(b.byteBuffer)),
     LastNewlineOffset |-> IF b.LastNewlineOffset > 0 THEN 1 ELSE 0]

Truncate(b) == [byteBuffer |-> Slice(b), LastNewlineOffset |-> 0]

IncrementOffset(b, delta) ==
    [b EXCEPT !.LastNewlineOffset = b.LastNewlineOffset + delta]

BufAppend(b, p) == [b EXCEPT !.byteBuffer = b.byteBuffer \o p]

BufToString(b) == b.byteBuffer

\* ------------------------------------------------------------------------
\* CompositeWriter: a record; callback is TRUE when the callback is not nil

NoWriter == [kind |-> "nil"]
\* the write end of a pipe made by StdoutPipe / StderrPipe
PipeWriter == [kind |-> "pipe"]

NewCompositeWriter(t, cb, payload, keepBuffer) ==
    [kind |-> "cw", Type |-> t, callback |-> cb, callbackPayload |-> payload,
     keepBuffer |-> keepBuffer, buffer |-> EmptyBuffer]

IsCW(w) == w.kind = "cw"

\* one callback invocation, as the callback and an observer see it
Call(cw, line, by) ==
    [stream |-> cw.Type, line |-> line, payload |-> cw.callbackPayload, by |-> by]

\* the loop of Write: emit every complete line of the unconsumed slice
RECURSIVE EmitLines(_, _, _)
EmitLines(cw, b, out) ==
    LET pos == IndexByte(Slice(b), NL)
    IN IF pos = -1
       THEN [buffer |-> b, out |-> out]
       ELSE EmitLines(cw, IncrementOffset(b, pos + 1),
                      Append(out, Call(cw, SliceNext(b, pos), "Write")))

\* CompositeWriter.Write(p): the writer afterwards and the callbacks made
Write(cw, p) ==
    LET grown == BufAppend(cw.buffer, p)
    IN IF cw.callback
       THEN LET r == EmitLines(cw, grown, <<>>)
                foundSmth == Len(r.out) > 0
            IN [cw |-> [cw EXCEPT !.buffer = IF foundSmth /\ ~cw.keepBuffer
                                             THEN Truncate(r.buffer)
                                             ELSE r.buffer],
                out |-> r.out]
       ELSE [cw |-> [cw EXCEPT !.buffer = grown], out |-> <<>>]

\* a Finalize that resets the buffer whatever keepBuffer says
FinalizeAlwaysReset(cw) ==
    LET pos == SliceLength(cw.buffer)
    IN IF cw.callback /\ pos > 0
       THEN [cw |-> [cw EXCEPT !.buffer = Reset(cw.buffer)],
             out |-> <<Call(cw, SliceNext(cw.buffer, pos), "Finalize")>>]
       ELSE [cw |-> cw, out |-> <<>>]

\* a Finalize that does not test for an empty remainder
FinalizeEmitsEmpty(cw) ==
    LET pos == SliceLength(cw.buffer)
    IN IF cw.callback
       THEN [cw |-> [cw EXCEPT !.buffer = IF ~cw.keepBuffer
                                         THEN Reset(cw.buffer)
                                         ELSE IncrementOffset(cw.buffer, pos)],
             out |-> <<Call(cw, SliceNext(cw.buffer, pos), "Finalize")>>]
       ELSE [cw |-> cw, out |-> <<>>]

\* CompositeWriter.Finalize(): the writer afterwards and the callbacks made
Finalize(cw) ==
    LET pos == SliceLength(cw.buffer)
    IN IF cw.callback /\ pos > 0
       THEN [cw |-> [cw EXCEPT !.buffer = IF ~cw.keepBuffer
                                         THEN Reset(cw.buffer)
                                         ELSE IncrementOffset(cw.buffer, pos)],
             out |-> <<Call(cw, SliceNext(cw.buffer, pos), "Finalize")>>]
       ELSE [cw |-> cw, out |-> <<>>]

\* CompositeWriter.ToString(): the text, or a panic
ToString(cw) ==
    IF cw.keepBuffer = FALSE
    THEN [panic |-> TRUE, text |-> <<>>]
    ELSE [panic |-> FALSE, text |-> BufToString(cw.buffer)]

\* ------------------------------------------------------------------------
\* What a byte stream means, independently of how the writer computes it

NLs(s) == {i \in 1..Len(s) : s[i] = NL}

\* position of the k-th '\n' of s (0 for k = 0)
KthNL(s, k) ==
    IF k = 0 THEN 0
    ELSE CHOOSE i \in NLs(s) : Cardinality({j \in NLs(s) : j <= i}) = k

\* the terminated lines of s, without their terminators
CompleteLines(s) ==
    [k \in 1..Cardinality(NLs(s)) |-> SubSeq(s, KthNL(s, k - 1) + 1, KthNL(s, k) - 1)]

\* what follows the last '\n' of s
TailOf(s) == SubSeq(s, KthNL(s, Cardinality(NLs(s))) + 1, Len(s))

EndsTerminated(s) == s = <<>> \/ s[Len(s)] = NL

\* the callback invocations a sequence of lines should cause
CallsFor(t, payload, lines, by) ==
    [k \in 1..Len(lines) |->
        [stream |-> t, line |-> lines[k], payload |-> payload, by |-> by]]

\* ------------------------------------------------------------------------
\* The request as New leaves it (shell.go:187-197)

NeverExecuted(s) == <<45, 45, s>>

NewRequest ==
    /\ AutoRead = [s \in Streams |-> TRUE]
    /\ Reader = [s \in Streams |-> "nil"]
    /\ Output = [s \in Streams |-> NeverExecuted(s)]
    /\ ExitCode = -1
    /\ WrappedCmd = "nil"

\* ------------------------------------------------------------------------
\* The child process and what Wait reports about it

NoChild == [state |-> "none", status |-> 0]
Running == [state |-> "running", status |-> 0]
\* terminated by exit(n)
Exited(n) == [state |-> "exited", status |-> n]
\* terminated by a signal: there is no exit status
Signaled == [state |-> "signaled", status |-> 0]
\* running, inside a write to stream s whose pipe is full
Blocked(s) == [state |-> "blocked", on |-> s]

Terminated(c) == c.state \in {"exited", "signaled"}

\* the values of Run's err after Wait
NoErr == [kind |-> "none", ws |-> NoChild]
\* Wait returned nil
WaitNil == [kind |-> "nil", ws |-> NoChild]
\* Wait returned an *exec.ExitError carrying the wait status ws
ExitError(ws) == [kind |-> "ExitError", ws |-> ws]
\* Wait returned any other error
WaitFailed == [kind |-> "other", ws |-> NoChild]
\* Wait on a handle waited on before: "exec: Wait was already called"
WaitAlreadyCalled == [kind |-> "alreadyCalled", ws |-> NoChild]

NoProcess ==
    /\ child = NoChild
    /\ pipe = [s \in Streams |-> <<>>]

\* no goroutine uses a writer directly
NoGoroutines ==
    /\ th = <<>>
    /\ mutex = "free"
    /\ order = <<>>

\* a slice header: the backing array and the length
NilSlice == [arr |-> 0, len |-> 0]

\* ExtraSshOptions is declared without a value; no request exists
NoSsh ==
    /\ heap = <<>>
    /\ ExtraSshOptions = NilSlice
    /\ requests = <<>>
    /\ asked = <<>>

\* ------------------------------------------------------------------------
\* A CompositeWriter driven directly: any sequence of Write and Finalize

InitCW ==
    /\ NewRequest
    /\ NoProcess
    /\ NoSsh
    /\ NoGoroutines
    /\ \E cb \in BOOLEAN, payload \in Payloads, keep \in BOOLEAN :
          Writer = [s \in Streams |->
                      IF s = STDOUT THEN NewCompositeWriter(s, cb, payload, keep)
                      ELSE NoWriter]
    /\ pc = "direct" /\ entry = "none" /\ ret = "none" /\ waitErr = NoErr
    /\ bytes = <<>>
    /\ callsLeft = 0 /\ bytesLeft = 0
    /\ sent = [s \in Streams |-> <<>>]
    /\ calls = <<>>
    /\ lastOp = "none" /\ nWrites = 0 /\ nFinalize = 0
    /\ unterminated = <<>> /\ longest = 0

DirectWrite(t, p) ==
    /\ pc = "direct"
    /\ nWrites < MaxWrites
    /\ Len(sent[t]) + Len(p) <= MaxStream
    /\ LET r == Write(Writer[t], p)
       IN /\ Writer' = [Writer EXCEPT ![t] = r.cw]
          /\ calls' = calls \o r.out
    /\ sent' = [sent EXCEPT ![t] = @ \o p]
    /\ lastOp' = "Write"
    /\ nWrites' = nWrites + 1
    /\ unterminated' = TailOf(unterminated \o p)
    /\ longest' = Max(longest, Len(TailOf(unterminated \o p)))
    /\ UNCHANGED <<reqVars, runVars, procVars, nFinalize, sshVars, lockVars>>

DirectFinalize(t) ==
    /\ pc = "direct"
    /\ nFinalize < MaxFinalize
    /\ LET r == Finalize(Writer[t])
       IN /\ Writer' = [Writer EXCEPT ![t] = r.cw]
          /\ calls' = calls \o r.out
    /\ lastOp' = "Finalize"
    /\ nFinalize' = nFinalize + 1
    /\ unterminated' = <<>>
    /\ UNCHANGED <<reqVars, runVars, procVars, sent, nWrites, longest, sshVars, lockVars>>

NextCW ==
    \/ \E p \in SeqsUpTo(Bytes, MaxStream - Len(sent[STDOUT])) : DirectWrite(STDOUT, p)
    \/ DirectFinalize(STDOUT)

SpecCW == InitCW /\ [][NextCW]_vars

\* the directly driven writer
TheWriter == Writer[STDOUT]
TheSent == sent[STDOUT]

\* ========================================================================
\* The CommandExecution lifecycle around the child processes it starts

\* bytes the child writes when the request is used for one call
MaxOut == 3
\* API calls made on one request
MaxCalls == 2
\* capacity of an output pipe, in bytes
PipeCap == 2
\* largest exit status of a child
MaxStatus == 1

\* how far a request is followed, <<calls, bytes written by its children>>:
\* every call after the first is paid for with two bytes of output
Budgets ==
    {<<c, MaxOut - 2 * (c - 1)>> : c \in {k \in 1..MaxCalls : MaxOut >= 2 * (k - 1)}}

\* the byte values a child writes: '\n', 'a'
ChildBytes == {NL, 97}
\* the payloads passed to RunWithCallbacks, as TestCallbacks passes them
RunPayloads == {[s \in Streams |-> s]}
\* what a pipe left over from an earlier, still running child may deliver
ForeignOutputs == {<<>>, <<97>>}

NoBytes == [s \in Streams |-> <<>>]

\* a wait status that forgets to shift the exit status out of the raw word
ExitStatusRaw(ws) == IF ws.state = "exited" THEN ws.status * 256 ELSE -1

\* syscall.WaitStatus.ExitStatus(): the exit status, -1 if the process did
\* not exit (it was terminated by a signal)
ExitStatus(ws) == IF ws.state = "exited" THEN ws.status ELSE -1

\* what Wait returns for a reaped child: nil on success, else an ExitError
WaitResult(c) ==
    IF c.state = "exited" /\ c.status = 0 THEN WaitNil ELSE ExitError(c)

\* ---- Begin (shell.go:203-241)

\* where pipe attachment may fail: nowhere (0), or at an auto-read stream
PipeFailures(ar) == {0} \cup {s \in Streams : ar[s]}

\* a reader that Begin does not replace now belongs to an abandoned handle:
\* one whose process runs on ("foreign") or was never started ("orphan")
Demote(r) ==
    IF r = "live"
    THEN IF WrappedCmd = "started" THEN "foreign" ELSE "orphan"
    ELSE r

BeginReader(ar, failAt) ==
    [s \in Streams |->
        IF failAt = 0
        THEN IF ar[s] THEN "live" ELSE Demote(Reader[s])
        ELSE IF failAt = STDERR /\ s = STDOUT /\ ar[STDOUT]
             THEN "orphan"
             ELSE Reader[s]]

\* a Begin that stores the handle before the pipes are attached
BeginHandleEarly(failAt) == "new"

\* "initialize only when all other operations are successful"
BeginHandle(failAt) == IF failAt = 0 THEN "new" ELSE WrappedCmd

BeginWriter(ar, failAt) ==
    IF failAt = 0
    THEN [s \in Streams |-> IF ar[s] THEN PipeWriter ELSE NoWriter]
    ELSE Writer

\* Begin with auto-read flags ar: the fields afterwards; fresh tells that
\* a new handle replaced the old one
Begin(ar, failAt) ==
    [err |-> failAt # 0,
     fresh |-> failAt = 0,
     Reader |-> BeginReader(ar, failAt),
     WrappedCmd |-> BeginHandle(failAt),
     Writer |-> BeginWriter(ar, failAt)]

\* the fields as they are, for a Run that needs no Begin
Prepared ==
    [err |-> FALSE, fresh |-> FALSE, Reader |-> Reader,
     WrappedCmd |-> WrappedCmd, Writer |-> Writer]

\* the child, its pipes and the record of its output and of its writers'
\* callbacks after the call's Begin
ProcessAfter(b, c) ==
    /\ child' = c
    /\ IF b.fresh
       THEN pipe' = NoBytes /\ sent' = NoBytes /\ calls' = <<>>
       ELSE UNCHANGED <<pipe, sent, calls>>

EnterCall(name) ==
    /\ pc = "idle"
    /\ callsLeft > 0
    /\ callsLeft' = callsLeft - 1
    /\ entry' = name
    /\ waitErr' = NoErr
    /\ bytes' = <<>>

CallBegin ==
    /\ EnterCall("Begin")
    /\ \E failAt \in PipeFailures(AutoRead) :
          LET b == Begin(AutoRead, failAt)
          IN /\ Reader' = b.Reader
             /\ WrappedCmd' = b.WrappedCmd
             /\ Writer' = b.Writer
             /\ ProcessAfter(b, IF b.fresh THEN NoChild ELSE child)
             /\ ret' = IF b.err THEN "errPipe" ELSE "nil"
    /\ UNCHANGED <<AutoRead, Output, ExitCode, pc, bytesLeft, directVars, sshVars, lockVars>>

\* ---- Run (shell.go:243-332)

\* the handle's pipes are closed by a failed Start and by Wait
ClosePipes(R, W) ==
    [s \in Streams |-> IF W[s].kind = "pipe" THEN "closed" ELSE R[s]]

\* a Run that finalizes the writers without waiting for the process
AfterReadsNoWait == "finish"

\* the reads are followed by Wait
AfterReads == "wait"

\* a Run that reads stdout only
NextReadStdoutOnly(R, from) ==
    IF from = STDOUT /\ R[STDOUT] # "nil" THEN "readStdout" ELSE AfterReads

\* where Run blocks first: an attached reader, or Wait
NextRead(R, from) ==
    IF from = STDOUT /\ R[STDOUT] # "nil" THEN "readStdout"
    ELSE IF R[STDERR] # "nil" THEN "readStderr"
    ELSE AfterReads

\* Run from "allow process to have been started externally" (shell.go:252)
\* up to the first blocking call, on the fields b
RunStart(b, startOK) ==
    IF b.WrappedCmd \in {"started", "waited"}
    THEN \* Process != nil: no Start
         /\ Reader' = b.Reader
         /\ WrappedCmd' = b.WrappedCmd
         /\ ProcessAfter(b, child)
         /\ pc' = NextRead(b.Reader, STDOUT)
         /\ ret' = "pending"
    ELSE IF startOK /\ b.WrappedCmd = "new"
    THEN /\ Reader' = b.Reader
         /\ WrappedCmd' = "started"
         /\ ProcessAfter(b, Running)
         /\ pc' = NextRead(b.Reader, STDOUT)
         /\ ret' = "pending"
    ELSE \* Start fails and closes the handle's pipes
         /\ Reader' = ClosePipes(b.Reader, b.Writer)
         /\ WrappedCmd' = "startFailed"
         /\ ProcessAfter(b, IF b.fresh THEN NoChild ELSE child)
         /\ pc' = "idle"
         /\ ret' = "errStart"

\* the fields b after Begin, then Run unless Begin failed
BeginThenRun(b, startOK) ==
    IF b.err
    THEN /\ Reader' = b.Reader
         /\ WrappedCmd' = b.WrappedCmd
         /\ ProcessAfter(b, child)
         /\ pc' = "idle"
         /\ ret' = "errPipe"
    ELSE RunStart(b, startOK)

CallRun ==
    /\ EnterCall("Run")
    /\ \E failAt \in (IF WrappedCmd = "nil" THEN PipeFailures(AutoRead) ELSE {0}),
          startOK \in (IF WrappedCmd \in {"nil", "new"} THEN BOOLEAN ELSE {FALSE}) :
          LET b == IF WrappedCmd = "nil" THEN Begin(AutoRead, failAt) ELSE Prepared
          IN /\ Writer' = b.Writer
             /\ BeginThenRun(b, startOK)
    /\ UNCHANGED <<AutoRead, Output, ExitCode, bytesLeft, directVars, sshVars, lockVars>>

\* RunWithCallbacks (shell.go:334-356)
CallRunWithCallbacks(cb, payload, keep) ==
    /\ EnterCall("RunWithCallbacks")
    /\ LET ar == [s \in Streams |-> AutoRead[s] /\ ~cb[s]]
       IN /\ AutoRead' = ar
          /\ \E failAt \in PipeFailures(ar), startOK \in BOOLEAN :
                LET b == Begin(ar, failAt)
                    w == [s \in Streams |->
                            IF cb[s]
                            THEN NewCompositeWriter(s, TRUE, payload[s], keep[s])
                            ELSE b.Writer[s]]
                IN /\ Writer' = IF b.err THEN b.Writer ELSE w
                   /\ BeginThenRun([b EXCEPT !.Writer = IF b.err THEN b.Writer ELSE w],
                                   startOK)
    /\ UNCHANGED <<Output, ExitCode, bytesLeft, directVars, sshVars, lockVars>>

ReadPc(s) == IF s = STDOUT THEN "readStdout" ELSE "readStderr"

\* ioutil.ReadAll takes what the pipe holds
RunReadSome(s) ==
    /\ pc = ReadPc(s)
    /\ Reader[s] = "live"
    /\ pipe[s] # <<>>
    /\ bytes' = bytes \o pipe[s]
    /\ pipe' = [pipe EXCEPT ![s] = <<>>]
    /\ UNCHANGED <<reqVars, Writer, pc, entry, ret, waitErr, callsLeft,
                   child, bytesLeft, sent, calls, directVars, sshVars, lockVars>>

\* ioutil.ReadAll reaches end of stream: the child is gone, the pipe empty
RunReadEOF(s) ==
    /\ pc = ReadPc(s)
    /\ Reader[s] = "live"
    /\ pipe[s] = <<>>
    /\ Terminated(child)
    /\ Output' = [Output EXCEPT ![s] = bytes]
    /\ Reader' = [Reader EXCEPT ![s] = "eof"]
    /\ bytes' = <<>>
    /\ pc' = IF s = STDOUT THEN NextRead(Reader, STDERR) ELSE AfterReads
    /\ UNCHANGED <<AutoRead, ExitCode, WrappedCmd, Writer, entry, ret, waitErr, callsLeft,
                   procVars, sent, calls, directVars, sshVars, lockVars>>

\* ioutil.ReadAll returns an error
RunReadFails(s) ==
    /\ pc = ReadPc(s)
    /\ Reader[s] \in {"live", "closed", "foreign"}
    /\ Reader' = [Reader EXCEPT ![s] = "closed"]
    /\ ret' = "errRead"
    /\ bytes' = <<>>
    /\ pc' = "idle"
    /\ UNCHANGED <<AutoRead, Output, ExitCode, WrappedCmd, Writer, entry, waitErr, callsLeft,
                   procVars, sent, calls, directVars, sshVars, lockVars>>

\* ioutil.ReadAll on a reader that is not the running child's pipe: at end
\* of stream already, or of a pipe nobody writes to any more
RunReadStale(s) ==
    /\ pc = ReadPc(s)
    /\ Reader[s] \in {"eof", "orphan", "foreign"}
    /\ \E x \in (IF Reader[s] = "foreign" THEN ForeignOutputs ELSE {<<>>}) :
          Output' = [Output EXCEPT ![s] = x]
    /\ Reader' = [Reader EXCEPT ![s] = "eof"]
    /\ pc' = IF s = STDOUT THEN NextRead(Reader, STDERR) ELSE AfterReads
    /\ UNCHANGED <<AutoRead, ExitCode, WrappedCmd, Writer, entry, ret, waitErr, bytes,
                   callsLeft, procVars, sent, calls, directVars, sshVars, lockVars>>

\* Wait on a handle that was waited on before
RunWaitAgain ==
    /\ pc = "wait"
    /\ WrappedCmd = "waited"
    /\ waitErr' = WaitAlreadyCalled
    /\ pc' = "finish"
    /\ UNCHANGED <<reqVars, Writer, entry, ret, bytes, callsLeft,
                   procVars, sent, calls, directVars, sshVars, lockVars>>

\* Wait returns once the child is gone and the copying goroutines are done
RunWait ==
    /\ pc = "wait"
    /\ WrappedCmd = "started"
    /\ Terminated(child)
    /\ \A s \in Streams : IsCW(Writer[s]) => pipe[s] = <<>>
    /\ \E e \in {WaitResult(child), WaitFailed} : waitErr' = e
    /\ WrappedCmd' = "waited"
    /\ Reader' = ClosePipes(Reader, Writer)
    /\ pc' = "finish"
    /\ UNCHANGED <<AutoRead, Output, ExitCode, Writer, entry, ret, bytes, callsLeft,
                   procVars, sent, calls, directVars, sshVars, lockVars>>

\* a grab that releases the buffer before reading it
GrabBufferAfterReset(cw, old) ==
    IF cw.keepBuffer
    THEN [text |-> ToString([cw EXCEPT !.buffer = Reset(cw.buffer)]).text,
          panic |-> FALSE,
          cw |-> [cw EXCEPT !.buffer = Reset(cw.buffer)]]
    ELSE [text |-> old, panic |-> FALSE, cw |-> cw]

\* a grab that does not look at keepBuffer
GrabBufferUnconditional(cw, old) ==
    [text |-> ToString(cw).text,
     panic |-> ToString(cw).panic,
     cw |-> [cw EXCEPT !.buffer = Reset(cw.buffer)]]

\* "grab buffer": the result text and the writer afterwards
GrabBuffer(cw, old) ==
    IF cw.keepBuffer
    THEN [text |-> ToString(cw).text,
          panic |-> ToString(cw).panic,
          cw |-> [cw EXCEPT !.buffer = Reset(cw.buffer)]]
    ELSE [text |-> old, panic |-> FALSE, cw |-> cw]

\* one type switch of Run: on WrappedCmd.Stdout, or on WrappedCmd.Stderr
FinalizeStream(s) ==
    IF IsCW(Writer[s])
    THEN LET r == Finalize(Writer[s])
             g == GrabBuffer(r.cw, Output[s])
         IN [out |-> r.out, text |-> g.text, cw |-> g.cw, panic |-> g.panic]
    ELSE [out |-> <<>>, text |-> Output[s], cw |-> Writer[s], panic |-> FALSE]

\* a classification that folds a failed Wait into the exit code
ClassifyFoldsFailure(err) ==
    IF err.kind = "nil" THEN [ExitCode |-> 0, ret |-> "nil"]
    ELSE IF err.kind = "ExitError"
    THEN [ExitCode |-> ExitStatus(err.ws), ret |-> "nil"]
    ELSE [ExitCode |-> 1, ret |-> "errWait"]

\* the classification of Wait's result: the exit code and the return value
Classify(err) ==
    IF err.kind = "nil" THEN [ExitCode |-> 0, ret |-> "nil"]
    ELSE IF err.kind = "ExitError"
    THEN [ExitCode |-> ExitStatus(err.ws), ret |-> "nil"]
    ELSE [ExitCode |-> ExitCode, ret |-> "errWait"]

\* Run after Wait: both type switches, then the classification
RunFinish ==
    /\ pc = "finish"
    /\ LET f == [s \in Streams |-> FinalizeStream(s)]
       IN /\ calls' = calls \o f[STDOUT].out \o f[STDERR].out
          /\ Output' = [s \in Streams |-> f[s].text]
          /\ Writer' = [s \in Streams |-> f[s].cw]
          /\ IF f[STDOUT].panic \/ f[STDERR].panic
             THEN pc' = "panic" /\ UNCHANGED <<ExitCode, ret>>
             ELSE /\ pc' = "idle"
                  /\ ExitCode' = Classify(waitErr).ExitCode
                  /\ ret' = Classify(waitErr).ret
    /\ UNCHANGED <<AutoRead, Reader, WrappedCmd, entry, waitErr, bytes,
                   callsLeft, procVars, sent, directVars, sshVars, lockVars>>

\* ---- the child process and the goroutines os/exec runs for the writers

\* the child writes one byte to stream s: to /dev/null when the handle has no
\* writer for s, else into the pipe if it has room
ChildWrite(s, b) ==
    /\ child.state = "running"
    /\ bytesLeft > 0
    /\ bytesLeft' = bytesLeft - 1
    /\ Writer[s].kind = "nil" \/ Len(pipe[s]) < PipeCap
    /\ sent' = [sent EXCEPT ![s] = Append(@, b)]
    /\ pipe' = IF Writer[s].kind = "nil" THEN pipe
               ELSE [pipe EXCEPT ![s] = Append(@, b)]
    /\ UNCHANGED <<reqVars, Writer, runVars, child, calls, directVars, sshVars, lockVars>>

\* the child calls write on stream s while its pipe is full
ChildBlocks(s) ==
    /\ child.state = "running"
    /\ bytesLeft > 0
    /\ Writer[s].kind # "nil"
    /\ Len(pipe[s]) >= PipeCap
    /\ child' = Blocked(s)
    /\ UNCHANGED <<reqVars, Writer, runVars, pipe, bytesLeft, sent, calls, directVars, sshVars, lockVars>>

\* the pipe has room again: the write goes through
ChildUnblocks(b) ==
    /\ child.state = "blocked"
    /\ Len(pipe[child.on]) < PipeCap
    /\ bytesLeft' = bytesLeft - 1
    /\ sent' = [sent EXCEPT ![child.on] = Append(@, b)]
    /\ pipe' = [pipe EXCEPT ![child.on] = Append(@, b)]
    /\ child' = Running
    /\ UNCHANGED <<reqVars, Writer, runVars, calls, directVars, sshVars, lockVars>>

ChildExit(c) ==
    /\ child.state = "running"
    /\ child' = c
    /\ UNCHANGED <<reqVars, Writer, runVars, pipe, bytesLeft, sent, calls, directVars, sshVars, lockVars>>

\* the goroutine of stream s reads k bytes and hands them to Write
CopyToWriter(s, k) ==
    /\ IsCW(Writer[s])
    /\ k \in 1..Len(pipe[s])
    /\ LET r == Write(Writer[s], SubSeq(pipe[s], 1, k))
       IN /\ Writer' = [Writer EXCEPT ![s] = r.cw]
          /\ calls' = calls \o r.out
    /\ pipe' = [pipe EXCEPT ![s] = SubSeq(@, k + 1, Len(@))]
    /\ UNCHANGED <<reqVars, runVars, child, bytesLeft, sent, directVars, sshVars, lockVars>>

Init ==
    /\ NewRequest
    /\ NoProcess
    /\ NoSsh
    /\ NoGoroutines
    /\ Writer = [s \in Streams |-> NoWriter]
    /\ pc = "idle" /\ entry = "none" /\ ret = "none" /\ waitErr = NoErr
    /\ bytes = <<>>
    /\ \E b \in Budgets : callsLeft = b[1] /\ bytesLeft = b[2]
    /\ sent = NoBytes
    /\ calls = <<>>
    /\ lastOp = "none" /\ nWrites = 0 /\ nFinalize = 0
    /\ unterminated = <<>> /\ longest = 0

Terminations == {Exited(n) : n \in 0..MaxStatus} \cup {Signaled}

Next ==
    \/ CallBegin
    \/ CallRun
    \/ \E cb \in [Streams -> BOOLEAN], payload \in RunPayloads,
          keep \in [Streams -> BOOLEAN] :
          /\ \A s \in Streams : keep[s] => cb[s]   \* keep is not read without a callback
          /\ CallRunWithCallbacks(cb, payload, keep)
    \/ \E s \in Streams : RunReadSome(s)
    \/ \E s \in Streams : RunReadEOF(s)
    \/ \E s \in Streams : RunReadFails(s)
    \/ \E s \in Streams : RunReadStale(s)
    \/ RunWaitAgain
    \/ RunWait
    \/ RunFinish
    \/ \E s \in Streams, b \in ChildBytes : ChildWrite(s, b)
    \/ \E s \in Streams : ChildBlocks(s)
    \/ \E b \in ChildBytes : ChildUnblocks(b)
    \/ \E c \in Terminations : ChildExit(c)
    \/ \E s \in Streams, k \in 1..PipeCap : CopyToWriter(s, k)

Spec == Init /\ [][Next]_vars

\* ========================================================================
\* Claims about a directly driven CompositeWriter (specification SpecCW)

\* C1: with a callback, whatever the chunking, once the bytes written so far
\* form L1\n...Ln\n (and no Finalize intervened) the callback has been invoked
\* exactly n times, with L1..Ln in order, without terminators, each with the
\* payload given at construction.
C1_LinesInOrder ==
    (TheWriter.callback /\ nFinalize = 0 /\ EndsTerminated(TheSent))
    => calls = CallsFor(TheWriter.Type, TheWriter.callbackPayload,
                        CompleteLines(TheSent), "Write")

\* two lines delivered over three Write calls
C1_Witness ==
    /\ TheWriter.callback /\ nFinalize = 0
    /\ TheSent = <<97, NL, 98, NL>>
    /\ nWrites = 3
    /\ Len(calls) = 2

\* C2: with a callback, Write never reports the unterminated last segment nor
\* any part of it (before Finalize the callbacks are exactly the terminated
\* lines); the first Finalize after the writes reports that segment exactly
\* once when it is not empty, and reports nothing when the stream is empty or
\* ends in '\n'.
C2_TrailingLineAtFinalize ==
    TheWriter.callback =>
       /\ nFinalize = 0 =>
            calls = CallsFor(TheWriter.Type, TheWriter.callbackPayload,
                             CompleteLines(TheSent), "Write")
       /\ (nFinalize = 1 /\ lastOp = "Finalize") =>
            calls = CallsFor(TheWriter.Type, TheWriter.callbackPayload,
                             CompleteLines(TheSent), "Write")
                    \o (IF TailOf(TheSent) # <<>>
                        THEN CallsFor(TheWriter.Type, TheWriter.callbackPayload,
                                      <<TailOf(TheSent)>>, "Finalize")
                        ELSE <<>>)

\* "b\nab" written in two calls, then Finalize reported "ab"
C2_Witness ==
    /\ TheWriter.callback /\ nFinalize = 1 /\ lastOp = "Finalize"
    /\ TheSent = <<98, NL, 97, 98>>
    /\ nWrites = 2
    /\ Len(calls) = 2
    /\ calls[2].by = "Finalize" /\ calls[2].line = <<97, 98>>

\* C5: with keepBuffer = true, after any Write calls followed by Finalize,
\* ToString returns exactly the concatenation of the chunks written.
C5_ToStringIsEverythingWritten ==
    (TheWriter.keepBuffer /\ lastOp = "Finalize")
    => ToString(TheWriter) = [panic |-> FALSE, text |-> TheSent]

\* a line and a trailing segment, written in two calls, then flushed
C5_Witness ==
    /\ TheWriter.keepBuffer /\ TheWriter.callback
    /\ lastOp = "Finalize" /\ nFinalize = 1
    /\ nWrites = 2
    /\ TheSent = <<97, NL, 98>>
    /\ Len(calls) = 2

\* C6 as stated: with keepBuffer = false, between calls the buffer is never
\* longer than the longest unterminated line seen so far.
C6_AsStated ==
    ~TheWriter.keepBuffer => Len(TheWriter.buffer.byteBuffer) <= longest

\* C6 amended: the same, for a writer that has a callback.
C6_BufferBoundedByOpenLine ==
    (~TheWriter.keepBuffer /\ TheWriter.callback)
    => Len(TheWriter.buffer.byteBuffer) <= longest

\* lines were extracted and a shorter open line is left in the buffer
C6_Witness ==
    /\ ~TheWriter.keepBuffer /\ TheWriter.callback
    /\ Len(TheSent) = 4
    /\ Len(calls) >= 1
    /\ longest = 2
    /\ Len(TheWriter.buffer.byteBuffer) = 1

\* ========================================================================
\* Claims about the lifecycle (specification Spec)

RunEntries == {"Run", "RunWithCallbacks"}

\* the API call that began in this step
CallStep == pc = "idle" /\ callsLeft' # callsLeft

\* Run's last step, the classification of Wait's result
ClassifyStep == pc = "finish" /\ pc' = "idle"

\* C3: when the output reads succeed and Wait reports the termination of a
\* child that exited with status N, Run returns nil and ExitCode = N, for
\* N = 0 and for every N > 0.
C3_ExitStatusRoundTrip ==
    (/\ pc = "idle" /\ entry \in RunEntries
     /\ waitErr.kind \in {"nil", "ExitError"}
     /\ child.state = "exited")
    => (ret = "nil" /\ ExitCode = child.status)

\* what TestFalse observes
C3_Witness ==
    /\ pc = "idle" /\ entry = "Run" /\ ret = "nil"
    /\ child = Exited(1)
    /\ ExitCode = 1
    /\ Output[STDOUT] = <<97, NL>>

\* C4: after RunWithCallbacks returned nil, a stream that had a callback and
\* retention on has as its result text exactly the bytes the child wrote to
\* it, and its writer's buffer is empty.
C4_RetainedTextIsChildOutput ==
    \A s \in Streams :
       (/\ pc = "idle" /\ entry = "RunWithCallbacks" /\ ret = "nil"
        /\ IsCW(Writer[s]) /\ Writer[s].keepBuffer)
       => (Output[s] = sent[s] /\ Writer[s].buffer = EmptyBuffer)

\* both streams retained, with output on both
C4_Witness ==
    /\ pc = "idle" /\ entry = "RunWithCallbacks" /\ ret = "nil"
    /\ \A s \in Streams : IsCW(Writer[s]) /\ Writer[s].keepBuffer
    /\ sent[STDOUT] = <<97, NL>> /\ sent[STDERR] = <<97>>
    /\ Output = sent
    /\ Len(calls) = 2

\* the callbacks of stream s, in order
CallsOf(s) == SelectSeq(calls, LAMBDA c : c.stream = s)

\* the bytes of stream s handed to its writer so far
Fed(s) == SubSeq(sent[s], 1, Len(sent[s]) - Len(pipe[s]))

\* C7: for each stream with a callback, the callbacks made so far are the
\* terminated lines of the bytes delivered so far, in stream order; a
\* callback from Finalize comes after all of them, only once Wait has
\* returned, the child has terminated and every byte it wrote was delivered.
C7_CallbackOrder ==
    \A s \in Streams :
       IsCW(Writer[s]) =>
          LET lines == CallsFor(s, Writer[s].callbackPayload,
                                CompleteLines(Fed(s)), "Write")
              last == CallsFor(s, Writer[s].callbackPayload,
                               <<TailOf(Fed(s))>>, "Finalize")
          IN \/ CallsOf(s) = lines
             \/ /\ CallsOf(s) = lines \o last
                /\ Fed(s) = sent[s]
                /\ Terminated(child)
                /\ WrappedCmd = "waited"

\* a line from Write, then the unterminated rest from Finalize
C7_Witness ==
    /\ pc = "idle" /\ entry = "RunWithCallbacks"
    /\ sent[STDOUT] = <<97, NL, 97>>
    /\ Len(calls) = 2
    /\ calls[1].by = "Write" /\ calls[2].by = "Finalize"
    /\ calls[2].line = <<97>>

\* C8 as stated: when Wait ends in anything but a clean exit or an exit with
\* a non-zero status, Run does not return nil.
C8_AsStated ==
    (/\ pc = "idle" /\ entry \in RunEntries
     /\ waitErr.kind # "none"
     /\ ~(waitErr.kind = "nil")
     /\ ~(waitErr.kind = "ExitError" /\ waitErr.ws.state = "exited"))
    => ret # "nil"

\* C9: ExitCode is -1 at first and changes only in the classification of
\* Wait's result; no error return changes it; the classification sets it to 0
\* exactly when Wait reported a clean termination, and otherwise to the status
\* of the child (-1, the value ExitStatus gives, for a child that was
\* terminated by a signal).
C9_ExitCodeSentinel ==
    /\ ExitCode = -1
    /\ [][/\ ~ClassifyStep => ExitCode' = ExitCode
          /\ (ClassifyStep /\ ret' # "nil") => ExitCode' = ExitCode
          /\ (ClassifyStep /\ ret' = "nil") =>
                /\ ExitCode' = 0 <=> (waitErr.kind = "nil" /\ child = Exited(0))
                /\ child.state = "exited" => ExitCode' = child.status
                /\ child.state = "signaled" => ExitCode' = -1]_vars

\* Wait failed after the child had exited with 1: ExitCode is still -1
C9_Witness ==
    /\ pc = "idle" /\ entry = "Run" /\ ret = "errWait"
    /\ child = Exited(1)
    /\ ExitCode = -1
    /\ Output[STDOUT] = <<97>>

\* C10: a Begin that fails at pipe attachment returns at once and leaves
\* WrappedCmd as it was (nil on a request never prepared); a Run whose Start
\* fails returns at once: it reads nothing, does not wait, finalizes nothing
\* and invokes no callback, and no process exists.
C10_SpawnFailuresStop ==
    [][/\ (CallStep /\ ret' = "errPipe") =>
             /\ pc' = "idle"
             /\ WrappedCmd' = WrappedCmd
             /\ Writer' = Writer
             /\ Output' = Output /\ ExitCode' = ExitCode
             /\ calls' = calls /\ waitErr' = NoErr
       /\ (CallStep /\ ret' = "errStart") =>
             /\ pc' = "idle"
             /\ WrappedCmd' = "startFailed"
             /\ child'.state = "none"
             /\ Output' = Output /\ ExitCode' = ExitCode
             /\ bytes' = <<>> /\ waitErr' = NoErr
             /\ calls' = <<>>
             /\ \A s \in Streams : IsCW(Writer'[s]) => Writer'[s].buffer = EmptyBuffer]_vars

\* the stderr pipe could not be attached: the request is still unprepared
C10_Witness ==
    /\ pc = "idle" /\ entry = "Begin" /\ ret = "errPipe"
    /\ WrappedCmd = "nil"
    /\ Reader[STDOUT] = "orphan" /\ Reader[STDERR] = "nil"

\* Run is inside its body: between its entry and its return
InRun == pc \in {"readStdout", "readStderr", "wait", "finish"}

\* C11 as stated: during the Run of RunWithCallbacks a stream with a callback
\* has its auto-read flag cleared, has a CompositeWriter as its sink and is
\* not read through a pipe reader; a stream without one has no
\* CompositeWriter.
C11_AsStated ==
    \A s \in Streams :
       (entry = "RunWithCallbacks" /\ InRun) =>
          /\ IsCW(Writer[s]) => (~AutoRead[s] /\ pc # ReadPc(s) /\ Reader[s] = "nil")
          /\ ~IsCW(Writer[s]) => Writer[s] = (IF AutoRead[s] THEN PipeWriter ELSE NoWriter)

\* C13: ToString panics on every writer whose keepBuffer is false, whatever
\* was written, and only on those; Run never makes that call: no call of
\* RunWithCallbacks, whatever its callbacks and retain flags, ends in the
\* panic.
C13_NoPanicFromRun ==
    /\ pc # "panic"
    /\ \A s \in Streams :
          IsCW(Writer[s]) => (ToString(Writer[s]).panic <=> ~Writer[s].keepBuffer)

\* a completed run with a callback and retention off on stdout
C13_Witness ==
    /\ pc = "idle" /\ entry = "RunWithCallbacks" /\ ret = "nil"
    /\ IsCW(Writer[STDOUT]) /\ ~Writer[STDOUT].keepBuffer
    /\ ToString(Writer[STDOUT]).panic
    /\ Len(calls) = 2
    /\ Output[STDOUT] = NeverExecuted(STDOUT)

\* C19 as stated: from the entry of RunWithCallbacks to its return, no step
\* changes the result text of a stream that has a callback and retention
\* off.
C19_AsStated ==
    [][\A s \in Streams :
          (/\ entry' = "RunWithCallbacks"
           /\ CallStep \/ InRun
           /\ IsCW(Writer'[s]) /\ ~Writer'[s].keepBuffer)
          => Output'[s] = Output[s]]_vars

\* the bytes the callbacks cs were given, each line from Write followed by
\* its terminator
RECURSIVE DeliveredBy(_)
DeliveredBy(cs) ==
    IF cs = <<>> THEN <<>>
    ELSE cs[1].line \o (IF cs[1].by = "Write" THEN <<NL>> ELSE <<>>)
         \o DeliveredBy(Tail(cs))

OffsetWithinBuffer(b) ==
    0 <= b.LastNewlineOffset /\ b.LastNewlineOffset <= Len(b.byteBuffer)

\* the consumed part of the buffer
Consumed(b) == SubSeq(b.byteBuffer, 1, b.LastNewlineOffset)

\* C14 as stated: the offset is within the buffer, and with retention and a
\* callback the bytes before the offset are the bytes delivered to the
\* callback so far plus their terminators, in every state.
C14_AsStated ==
    \A s \in Streams :
       IsCW(Writer[s]) =>
          /\ OffsetWithinBuffer(Writer[s].buffer)
          /\ (Writer[s].keepBuffer /\ Writer[s].callback) =>
                Consumed(Writer[s].buffer) = DeliveredBy(CallsOf(s))

\* C14: the offset is within the buffer in every state; with retention and
\* a callback the bytes before the offset are the bytes delivered so far
\* plus their terminators until Run, after Wait, has taken the text and
\* released the buffer, which is empty from then on.
C14_OffsetWithinBuffer ==
    \A s \in Streams :
       IsCW(Writer[s]) =>
          /\ OffsetWithinBuffer(Writer[s].buffer)
          /\ (Writer[s].keepBuffer /\ Writer[s].callback) =>
                \/ Consumed(Writer[s].buffer) = DeliveredBy(CallsOf(s))
                \/ /\ Writer[s].buffer = EmptyBuffer
                   /\ WrappedCmd = "waited"

\* a line delivered, the next one still open
C14_Witness ==
    /\ IsCW(Writer[STDOUT]) /\ Writer[STDOUT].keepBuffer
    /\ Writer[STDOUT].buffer = [byteBuffer |-> <<97, NL, 97>>, LastNewlineOffset |-> 2]
    /\ Len(calls) = 1

\* a bulk read of Run returns an error in this step
ReadFailure == pc \in {"readStdout", "readStderr"} /\ pc' = "idle"

\* C16: Run reaches the stderr read only with stdout read to end of stream,
\* and Wait only with every attached reader read to end of stream; the bytes
\* read from the child's pipe, all it wrote, become the result text; a failed
\* read makes Run return the error with no Wait, no Finalize, no callback,
\* and the child as it was.
C16_ReadsBeforeWait ==
    /\ [](pc = "readStderr" => Reader[STDOUT] \in {"nil", "eof"})
    /\ [](pc = "wait" => \A s \in Streams : Reader[s] \in {"nil", "eof"})
    /\ [][/\ \A s \in Streams :
                (Reader[s] = "live" /\ Reader'[s] = "eof") =>
                   (pc = ReadPc(s) /\ Output'[s] = sent[s])
          /\ waitErr' # waitErr => (pc = "wait" \/ CallStep)
          /\ ReadFailure =>
                /\ ret' = "errRead"
                /\ waitErr' = NoErr /\ WrappedCmd' = WrappedCmd
                /\ child' = child
                /\ calls' = calls /\ Writer' = Writer
                /\ Output' = Output /\ ExitCode' = ExitCode]_vars

\* both pipes read to the end, Wait not yet called
C16_Witness ==
    /\ pc = "wait" /\ entry = "Run"
    /\ Reader = [s \in Streams |-> "eof"]
    /\ Output[STDOUT] = <<97>> /\ Output[STDERR] = <<97, NL>>
    /\ waitErr = NoErr

Other(s) == IF s = STDOUT THEN STDERR ELSE STDOUT

\* C17 as stated (its safety half): in a Run that reads both streams itself,
\* the child is never blocked writing to a full pipe while Run is blocked
\* reading the other pipe, which is empty, or waiting.
C17_AsStated ==
    \A s \in Streams :
       ~ /\ entry = "Run" /\ child = Blocked(s)
         /\ \A r \in Streams : AutoRead[r] /\ Writer[r] = PipeWriter
         /\ \/ pc = ReadPc(Other(s)) /\ Reader[Other(s)] = "live" /\ pipe[Other(s)] = <<>>
            \/ pc = "wait"

\* a Run on a request whose process was waited on before: its entry, its
\* body up to the second Wait, its steps after that Wait
RerunEntry == CallStep /\ entry' = "Run" /\ WrappedCmd = "waited"
RerunBody == pc \in {"readStdout", "readStderr", "wait"} /\ WrappedCmd = "waited"
RerunFinish == pc = "finish" /\ waitErr = WaitAlreadyCalled

MaxOpts == 1
\* spare capacity of the backing array of ExtraSshOptions
MaxSpare == 8
\* requests built by NewSsh
MaxRequests == 2
\* arguments of the remote command
MaxArgs == 1
\* spare capacity append may give to an array it allocates
MaxSlack == 1

Hosts == {"h1", "h2"}
Words == {"ls"}
OptionWords == {"-4"}

\* a slot of a backing array beyond the length of every slice on it
Blank == ""
Blanks(n) == [i \in 1..n |-> Blank]

\* the fixed options of prepareSshArgs
SafetyOptions ==
    <<"-o", "UserKnownHostsFile=/dev/null", "-o", "StrictHostKeyChecking=no",
      "-o", "LogLevel=ERROR">>

\* cap(sl) and the elements of sl, in the heap hp
Cap(hp, sl) == IF sl.arr = 0 THEN 0 ELSE Len(hp[sl.arr])
Elems(hp, sl) == IF sl.arr = 0 THEN <<>> ELSE SubSeq(hp[sl.arr], 1, sl.len)

\* Go's append(sl, xs...): in place when the capacity suffices, else into a
\* new array (with slack spare slots); the heap and the slice afterwards
GoAppend(hp, sl, xs, slack) ==
    IF xs = <<>>
    THEN [heap |-> hp, slice |-> sl]
    ELSE IF sl.len + Len(xs) <= Cap(hp, sl)
    THEN [heap |-> [hp EXCEPT ![sl.arr] =
                       [i \in 1..Len(@) |->
                           IF i > sl.len /\ i <= sl.len + Len(xs)
                           THEN xs[i - sl.len] ELSE @[i]]],
          slice |-> [arr |-> sl.arr, len |-> sl.len + Len(xs)]]
    ELSE [heap |-> Append(hp, Elems(hp, sl) \o xs \o Blanks(slack)),
          slice |-> [arr |-> Len(hp) + 1, len |-> sl.len + Len(xs)]]

\* a builder that puts the host before the fixed options
prepareSshArgsHostFirst(hp, host, args, k1, k2) ==
    LET a == GoAppend(hp, ExtraSshOptions, <<host>> \o SafetyOptions, k1)
    IN GoAppend(a.heap, a.slice, args, k2)

\* prepareSshArgs on the heap hp; k1, k2: the slack of its two appends
prepareSshArgs(hp, host, args, k1, k2) ==
    LET a == GoAppend(hp, ExtraSshOptions, SafetyOptions \o <<host>>, k1)
    IN GoAppend(a.heap, a.slice, args, k2)

NewSsh(host, args, k1, k2) ==
    /\ pc = "ssh"
    /\ Len(requests) < MaxRequests
    /\ LET a == prepareSshArgs(heap, host, args, k1, k2)
       IN /\ heap' = a.heap
          /\ requests' = Append(requests, [Command |-> "ssh", Args |-> a.slice])
    /\ asked' = Append(asked, [host |-> host, args |-> args])
    /\ UNCHANGED <<reqVars, Writer, runVars, procVars, sent, calls, directVars,
                   ExtraSshOptions, lockVars>>

\* ExtraSshOptions as the program's configuration left it: some options, in
\* a backing array with some spare capacity
InitSsh ==
    /\ NewRequest
    /\ NoProcess
    /\ Writer = [s \in Streams |-> NoWriter]
    /\ pc = "ssh" /\ entry = "none" /\ ret = "none" /\ waitErr = NoErr
    /\ bytes = <<>>
    /\ callsLeft = 0 /\ bytesLeft = 0
    /\ sent = NoBytes
    /\ calls = <<>>
    /\ lastOp = "none" /\ nWrites = 0 /\ nFinalize = 0
    /\ unterminated = <<>> /\ longest = 0
    /\ \E opts \in SeqsUpTo(OptionWords, MaxOpts), spare \in 0..MaxSpare :
          IF opts = <<>> /\ spare = 0
          THEN heap = <<>> /\ ExtraSshOptions = NilSlice
          ELSE /\ heap = <<opts \o Blanks(spare)>>
               /\ ExtraSshOptions = [arr |-> 1, len |-> Len(opts)]
    /\ requests = <<>>
    /\ asked = <<>>
    /\ NoGoroutines

NextSsh ==
    \E host \in Hosts, args \in SeqsUpTo(Words, MaxArgs), k1, k2 \in 0..MaxSlack :
       NewSsh(host, args, k1, k2)

SpecSsh == InitSsh /\ [][NextSsh]_vars

\* the argument list of request i, and the one it was built to have
ArgsOf(i) == Elems(heap, requests[i].Args)
ArgsAsked(i) ==
    Elems(heap, ExtraSshOptions) \o SafetyOptions \o <<asked[i].host>> \o asked[i].args

\* C12: the request NewSsh has just built has the command "ssh" and the
\* arguments: ExtraSshOptions, the three fixed options, the host, the
\* caller's arguments, in that order.
C12_SshArgsInOrder ==
    requests # <<>> =>
       /\ requests[Len(requests)].Command = "ssh"
       /\ ArgsOf(Len(requests)) = ArgsAsked(Len(requests))

C12_Witness ==
    /\ Len(requests) = 1
    /\ ArgsOf(1) = <<"-4", "-o", "UserKnownHostsFile=/dev/null", "-o",
                     "StrictHostKeyChecking=no", "-o", "LogLevel=ERROR", "h1", "ls">>

\* C18 as stated: every request built so far keeps the argument list it was
\* built with, whatever NewSsh built afterwards.
C18_AsStated ==
    \A i \in 1..Len(requests) : ArgsOf(i) = ArgsAsked(i)

\* ========================================================================
\* Write and Finalize called concurrently on one CompositeWriter
\* (shell.go:130-182), statement by statement

\* longest chunk a Write call is given
MaxChunk == 2

\* two goroutines that call Write once, one that calls Finalize once
WriteCallers == {"w1", "w2"}
Goroutines == WriteCallers \cup {"fin"}

Chunks == SeqsUpTo({NL, 97}, MaxChunk) \ {<<>>}

\* inside the section between buffer.Lock() and the deferred buffer.Unlock()
Critical == {"append", "find", "emit", "truncate", "final", "advance", "unlock"}

\* a Lock that does not wait
LockIgnoresHolder(m) == TRUE

\* sync.Mutex.Lock returns when the mutex is free
LockAcquires(m) == m = "free"

Goto(t, label) == th' = [th EXCEPT ![t].pc = label]

\* this.buffer.Lock()
Lock(t) ==
    /\ pc = "goroutines"
    /\ th[t].pc = "start"
    /\ LockAcquires(mutex)
    /\ mutex' = t
    /\ order' = Append(order, t)
    /\ Goto(t, IF t \in WriteCallers THEN "append" ELSE "final")
    /\ UNCHANGED <<reqVars, Writer, runVars, procVars, sent, calls, directVars, sshVars>>

\* Write: this.buffer.Append(p), then the test of the callback
WriteAppend(t) ==
    /\ th[t].pc = "append"
    /\ Writer' = [Writer EXCEPT ![STDOUT].buffer = BufAppend(@, th[t].p)]
    /\ sent' = [sent EXCEPT ![STDOUT] = @ \o th[t].p]
    /\ Goto(t, IF Writer[STDOUT].callback THEN "find" ELSE "unlock")
    /\ UNCHANGED <<reqVars, runVars, procVars, calls, directVars, sshVars, mutex, order>>

\* Write: pos = bytes.IndexByte(this.buffer.Slice(), '\n') and the loop test
WriteFind(t) ==
    /\ th[t].pc = "find"
    /\ LET pos == IndexByte(Slice(Writer[STDOUT].buffer), NL)
       IN th' = [th EXCEPT ![t].pos = pos,
                           ![t].pc = IF pos = -1 THEN "truncate" ELSE "emit"]
    /\ UNCHANGED <<reqVars, Writer, runVars, procVars, sent, calls, directVars, sshVars,
                   mutex, order>>

\* Write: the body of the loop (a slice expression out of range panics: the
\* goroutine goes no further)
WriteEmit(t) ==
    /\ th[t].pc = "emit"
    /\ th[t].pos <= SliceLength(Writer[STDOUT].buffer)
    /\ calls' = Append(calls, Call(Writer[STDOUT],
                                   SliceNext(Writer[STDOUT].buffer, th[t].pos), "Write"))
    /\ Writer' = [Writer EXCEPT ![STDOUT].buffer = IncrementOffset(@, th[t].pos + 1)]
    /\ th' = [th EXCEPT ![t].found = TRUE, ![t].pc = "find"]
    /\ UNCHANGED <<reqVars, runVars, procVars, sent, directVars, sshVars, mutex, order>>

\* Write: if foundSmth && !this.keepBuffer { Truncate } (out of range: panic)
WriteTruncate(t) ==
    /\ th[t].pc = "truncate"
    /\ IF th[t].found /\ ~Writer[STDOUT].keepBuffer
       THEN /\ SliceLength(Writer[STDOUT].buffer) >= 0
            /\ Writer' = [Writer EXCEPT ![STDOUT].buffer = Truncate(@)]
       ELSE Writer' = Writer
    /\ Goto(t, "unlock")
    /\ UNCHANGED <<reqVars, runVars, procVars, sent, calls, directVars, sshVars, mutex, order>>

\* Finalize: pos = SliceLength(), the callback on the rest
FinalizeEmit(t) ==
    /\ th[t].pc = "final"
    /\ LET pos == SliceLength(Writer[STDOUT].buffer)
       IN IF Writer[STDOUT].callback /\ pos > 0
          THEN /\ calls' = Append(calls, Call(Writer[STDOUT],
                                   SliceNext(Writer[STDOUT].buffer, pos), "Finalize"))
               /\ th' = [th EXCEPT ![t].pos = pos, ![t].pc = "advance"]
          ELSE /\ calls' = calls
               /\ Goto(t, "unlock")
    /\ UNCHANGED <<reqVars, Writer, runVars, procVars, sent, directVars, sshVars, mutex, order>>

\* Finalize: Reset, or IncrementOffset(pos)
FinalizeAdvance(t) ==
    /\ th[t].pc = "advance"
    /\ Writer' = [Writer EXCEPT ![STDOUT].buffer =
                     IF ~Writer[STDOUT].keepBuffer THEN Reset(@)
                     ELSE IncrementOffset(@, th[t].pos)]
    /\ Goto(t, "unlock")
    /\ UNCHANGED <<reqVars, runVars, procVars, sent, calls, directVars, sshVars, mutex, order>>

\* the deferred this.buffer.Unlock()
Unlock(t) ==
    /\ th[t].pc = "unlock"
    /\ mutex' = "free"
    /\ Goto(t, "done")
    /\ UNCHANGED <<reqVars, Writer, runVars, procVars, sent, calls, directVars, sshVars, order>>

InitLock ==
    /\ NewRequest
    /\ NoProcess
    /\ NoSsh
    /\ \E cb \in BOOLEAN, keep \in BOOLEAN :
          Writer = [s \in Streams |->
                      IF s = STDOUT THEN NewCompositeWriter(s, cb, 1, keep)
                      ELSE NoWriter]
    /\ pc = "goroutines" /\ entry = "none" /\ ret = "none" /\ waitErr = NoErr
    /\ bytes = <<>>
    /\ callsLeft = 0 /\ bytesLeft = 0
    /\ sent = NoBytes
    /\ calls = <<>>
    /\ lastOp = "none" /\ nWrites = 0 /\ nFinalize = 0
    /\ unterminated = <<>> /\ longest = 0
    /\ \E p \in [WriteCallers -> Chunks] :
          th = [t \in Goroutines |->
                  [pc |-> "start", p |-> IF t \in WriteCallers THEN p[t] ELSE <<>>,
                   found |-> FALSE, pos |-> 0]]
    /\ mutex = "free"
    /\ order = <<>>

NextLock ==
    \E t \in Goroutines :
       \/ Lock(t)
       \/ WriteAppend(t)
       \/ WriteFind(t)
       \/ WriteEmit(t)
       \/ WriteTruncate(t)
       \/ FinalizeEmit(t)
       \/ FinalizeAdvance(t)
       \/ Unlock(t)

SpecLock == InitLock /\ [][NextLock]_vars

\* the calls of the goroutines ord made one after the other, each as a
\* whole, on the writer cw with the callbacks out made before
RECURSIVE OneByOne(_, _, _)
OneByOne(cw, out, ord) ==
    IF ord = <<>> THEN [cw |-> cw, out |-> out]
    ELSE LET r == IF ord[1] \in WriteCallers
                  THEN Write(cw, th[ord[1]].p)
                  ELSE Finalize(cw)
         IN OneByOne(r.cw, out \o r.out, Tail(ord))

FreshWriter == [Writer[STDOUT] EXCEPT !.buffer = EmptyBuffer]

\* C15: at most one goroutine is between Lock and Unlock; so whenever none
\* is, the writer and the callbacks made are what the calls made so far give
\* when made one after the other in the order they took the lock.
C15_MutualExclusion ==
    /\ pc = "goroutines" => Cardinality({t \in Goroutines : th[t].pc \in Critical}) <= 1
    /\ (pc = "goroutines" /\ \A t \in Goroutines : th[t].pc \notin Critical) =>
          /\ Writer[STDOUT] = OneByOne(FreshWriter, <<>>, order).cw
          /\ calls = OneByOne(FreshWriter, <<>>, order).out

\* "a" and "\n" written by two goroutines, then Finalize: one line, whole
C15_Witness ==
    /\ pc = "goroutines"
    /\ \A t \in Goroutines : th[t].pc = "done"
    /\ order = <<"w2", "w1", "fin">>
    /\ th["w2"].p = <<97>> /\ th["w1"].p = <<NL, 97>>
    /\ Len(calls) = 2
    /\ calls[1].line = <<97>> /\ calls[2].by = "Finalize"

====
